---------------------------- MODULE Spec2Model ----------------------------
(***************************************************************************)
(* A model of the Kafka queue size monitor (QueueSizeMonitor): the offset  *)
(* commit decoder, the two offset stores with their mutexes, the ingestor  *)
(* goroutines, the per-tick broker offset poll and the lag computation.    *)
(*                                                                         *)
(* Strings are sequences of bytes, so that the decoder works on the bytes  *)
(* of a record and the stat name is built by concatenation.                *)
(***************************************************************************)
EXTENDS Integers, Sequences, FiniteSets, TLC

(***************************************************************************)
(* Bounds of the model.                                                    *)
(***************************************************************************)
\* the log end offset of a partition grows up to MaxOffset
MaxOffset == 2
\* the number of records the streams of the offset topic deliver in a run
MaxRecords == 2

(***************************************************************************)
(* Names, as bytes.                                                        *)
(***************************************************************************)
G1 == <<103, 49>>       \* "g1"
G2 == <<103, 50>>       \* "g2"
T1 == <<116, 49>>       \* "t1"
T2 == <<116, 50>>       \* "t2"
Prefix == <<107, 113, 109>>   \* "kqm", the default of --statsd-prefix

Min(a, b) == IF a < b THEN a ELSE b

(***************************************************************************)
(* encoding/binary, big endian.                                            *)
(***************************************************************************)
RECURSIVE BigEndian(_)
\* the unsigned value of a big-endian byte string
BigEndian(bs) ==
    IF bs = <<>> THEN 0
    ELSE BigEndian(SubSeq(bs, 1, Len(bs) - 1)) * 256 + bs[Len(bs)]

\* the signed value of a big-endian byte string read into an unsigned
\* integer of that width and converted to the signed type of the same
\* width (int32(partition), int64(offset), int64(timestamp))
TwosComplement(bs) ==
    IF bs = <<>> THEN 0
    ELSE LET hi == IF bs[1] >= 128 THEN bs[1] - 256 ELSE bs[1]
             RECURSIVE acc(_, _)
             acc(v, i) == IF i > Len(bs) THEN v ELSE acc(v * 256 + bs[i], i + 1)
         IN  acc(hi, 2)

\* binary.Read of a fixed-width value from a bytes.Buffer: io.ReadFull
\* takes n bytes, or fails having consumed what was left
ReadFull(buf, n) ==
    IF Len(buf) >= n
    THEN [err |-> FALSE, bytes |-> SubSeq(buf, 1, n),
          rest |-> SubSeq(buf, n + 1, Len(buf))]
    ELSE [err |-> TRUE, bytes |-> <<>>, rest |-> <<>>]

\* readString: a 2-byte length, then that many bytes
readStringShortAccepted(buf) ==
    LET l == ReadFull(buf, 2) IN
    IF l.err THEN [err |-> TRUE, str |-> <<>>, rest |-> l.rest]
    ELSE LET strlen == BigEndian(l.bytes)
             n == Min(strlen, Len(l.rest))
         IN  [err |-> FALSE, str |-> SubSeq(l.rest, 1, n),
              rest |-> SubSeq(l.rest, n + 1, Len(l.rest))]

readString(buf) ==
    LET l == ReadFull(buf, 2) IN
    IF l.err THEN [err |-> TRUE, str |-> <<>>, rest |-> l.rest]
    ELSE LET strlen == BigEndian(l.bytes)
             \* buf.Read copies min(len(strbytes), buf.Len()) bytes
             n == Min(strlen, Len(l.rest))
         IN  IF n # strlen
             THEN [err |-> TRUE, str |-> <<>>,
                   rest |-> SubSeq(l.rest, n + 1, Len(l.rest))]
             ELSE [err |-> FALSE, str |-> SubSeq(l.rest, 1, n),
                   rest |-> SubSeq(l.rest, n + 1, Len(l.rest))]

\* a record that was not decoded
NoOffset == [err |-> TRUE]

\* the PartitionOffset formatConsumerOffsetMessage builds
PartitionOffset(group, topic, partition, offset, timestamp) ==
    [err |-> FALSE, Group |-> group, Topic |-> topic, Partition |-> partition,
     Offset |-> offset, Timestamp |-> timestamp]

\* the value of an offset commit record: version, offset, metadata, timestamp
parseValue(group, topic, partition, value) ==
    LET v == ReadFull(value, 2)
        valver == IF v.err THEN 0 ELSE BigEndian(v.bytes)
    IN
    IF v.err \/ (valver # 0 /\ valver # 1) THEN NoOffset
    ELSE LET o == ReadFull(v.rest, 8) IN
    IF o.err THEN NoOffset
    ELSE LET m == readString(o.rest) IN
    IF m.err THEN NoOffset
    ELSE LET ts == ReadFull(m.rest, 8) IN
    IF ts.err THEN NoOffset
    ELSE PartitionOffset(group, topic, partition,
                         TwosComplement(o.bytes), TwosComplement(ts.bytes))

\* the key of an offset commit record: version, group, topic, partition
parseKeyAnyVersion(message) ==
    LET k == ReadFull(message.Key, 2)
        g == readString(k.rest) IN
    IF g.err THEN NoOffset
    ELSE LET t == readString(g.rest) IN
    IF t.err THEN NoOffset
    ELSE LET p == ReadFull(t.rest, 4) IN
    IF p.err THEN NoOffset
    ELSE parseValue(g.str, t.str, TwosComplement(p.bytes), message.Value)

\* the key read as version, topic, group, partition
parseKeyTopicFirst(message) ==
    LET k == ReadFull(message.Key, 2)
        keyver == IF k.err THEN 0 ELSE BigEndian(k.bytes)
    IN
    IF keyver \in {0, 1}
    THEN LET t == readString(k.rest) IN
         IF t.err THEN NoOffset
         ELSE LET g == readString(t.rest) IN
         IF g.err THEN NoOffset
         ELSE LET p == ReadFull(g.rest, 4) IN
         IF p.err THEN NoOffset
         ELSE parseValue(g.str, t.str, TwosComplement(p.bytes), message.Value)
    ELSE NoOffset

\* formatConsumerOffsetMessage up to the PartitionOffset it stores
parseMessage(message) ==
    LET k == ReadFull(message.Key, 2)
        \* keyver keeps its zero value when the read fails
        keyver == IF k.err THEN 0 ELSE BigEndian(k.bytes)
    IN
    IF keyver \in {0, 1}
    THEN LET g == readString(k.rest) IN
         IF g.err THEN NoOffset
         ELSE LET t == readString(g.rest) IN
         IF t.err THEN NoOffset
         ELSE LET p == ReadFull(t.rest, 4) IN
         IF p.err THEN NoOffset
         ELSE parseValue(g.str, t.str, TwosComplement(p.bytes), message.Value)
    ELSE NoOffset

(***************************************************************************)
(* The wire layout of the records of the offset topic, as the decoder      *)
(* reads it; used to build the records the streams deliver.                *)
(***************************************************************************)
RECURSIVE EncodeUnsigned(_, _)
EncodeUnsigned(n, width) ==
    IF width = 0 THEN <<>>
    ELSE Append(EncodeUnsigned(n \div 256, width - 1), n % 256)

\* two's complement of a value of small magnitude, in width bytes
EncodeInt(n, width) ==
    IF n >= 0 THEN EncodeUnsigned(n, width)
    ELSE [i \in 1..width |->
            IF i = width THEN 256 + n ELSE 255]

EncodeString(s) == EncodeUnsigned(Len(s), 2) \o s

CommitKey(ver, group, topic, partition) ==
    EncodeUnsigned(ver, 2) \o EncodeString(group) \o EncodeString(topic)
        \o EncodeInt(partition, 4)

CommitValue(ver, offset, metadata, timestamp) ==
    EncodeUnsigned(ver, 2) \o EncodeInt(offset, 8) \o EncodeString(metadata)
        \o EncodeInt(timestamp, 8)

CommitRecord(group, topic, partition, offset) ==
    [Key |-> CommitKey(1, group, topic, partition),
     Value |-> CommitValue(1, offset, <<>>, 1)]

(***************************************************************************)
(* The offset stores: Go maps of maps.  A missing key reads as the zero    *)
(* value: a nil map, and 0 from a nil map.                                 *)
(***************************************************************************)
EmptyMap == <<>>

Put(m, k, v) == [x \in DOMAIN m \cup {k} |-> IF x = k THEN v ELSE m[x]]

\* tpOffsetMap[topic][partition]
TPOffset(m, topic, partition) ==
    IF topic \in DOMAIN m
    THEN IF partition \in DOMAIN m[topic] THEN m[topic][partition] ELSE 0
    ELSE 0

\* gtpOffsetMap[group][topic][partition]
GTPOffset(m, group, topic, partition) ==
    IF group \in DOMAIN m THEN TPOffset(m[group], topic, partition) ELSE 0

\* the (group, topic, partition) keys of a GTPOffsetMap
GTPKeys(m) ==
    UNION {UNION {{<<g, t, p>> : p \in DOMAIN m[g][t]} : t \in DOMAIN m[g]}
             : g \in DOMAIN m}

\* the (topic, partition) keys of a TPOffsetMap
TPKeys(m) == UNION {{<<t, p>> : p \in DOMAIN m[t]} : t \in DOMAIN m}

storeBrokerOffsetFreshTopic(store, newOffset) ==
    Put(store, newOffset.Topic,
        Put(EmptyMap, newOffset.Partition, newOffset.Offset))

\* storeBrokerOffset, between Lock and Unlock
storeBrokerOffsetMap(store, newOffset) ==
    LET topic == newOffset.Topic
        s1 == IF topic \in DOMAIN store THEN store
              ELSE Put(store, topic, EmptyMap)
    IN  Put(s1, topic, Put(s1[topic], newOffset.Partition, newOffset.Offset))

storeConsumerOffsetFreshGroup(store, newOffset) ==
    Put(store, newOffset.Group,
        storeBrokerOffsetMap(EmptyMap, newOffset))

storeConsumerOffsetFreshStore(store, newOffset) ==
    Put(EmptyMap, newOffset.Group, storeBrokerOffsetMap(EmptyMap, newOffset))

\* storeConsumerOffset, between Lock and Unlock
storeConsumerOffsetMap(store, newOffset) ==
    LET group == newOffset.Group
        topic == newOffset.Topic
        s1 == IF group \in DOMAIN store THEN store
              ELSE Put(store, group, EmptyMap)
        g1 == IF topic \in DOMAIN s1[group] THEN s1[group]
              ELSE Put(s1[group], topic, EmptyMap)
    IN  Put(s1, group,
            Put(g1, topic,
                Put(g1[topic], newOffset.Partition, newOffset.Offset)))


(***************************************************************************)
(* getTopicsAndPartitions: the topic -> partitions lists built from the    *)
(* consumer offset store.  Go ranges over a map in an unspecified order,   *)
(* and the partitions of a topic are appended once per group.              *)
(***************************************************************************)
Perms(S) ==
    {s \in [1..Cardinality(S) -> S] :
        \A i, j \in 1..Cardinality(S) : i # j => s[i] # s[j]}

RECURSIVE Flatten(_)
Flatten(ss) == IF ss = <<>> THEN <<>> ELSE Head(ss) \o Flatten(Tail(ss))

\* the (group, topic) pairs of the store
GTPairs(store) == UNION {{<<g, t>> : t \in DOMAIN store[g]} : g \in DOMAIN store}

StoreTopics(store) == {gt[2] : gt \in GTPairs(store)}

\* one order of ranging over the partitions, for every (group, topic)
PartitionOrders(store) ==
    {f \in [GTPairs(store) ->
              UNION {Perms(DOMAIN store[gt[1]][gt[2]]) : gt \in GTPairs(store)}] :
        \A gt \in GTPairs(store) : f[gt] \in Perms(DOMAIN store[gt[1]][gt[2]])}

\* tpMap[topic], the groups ranged over in the order gs
tpMapOf(store, gs, ps, topic) ==
    Flatten([i \in 1..Len(gs) |->
                IF topic \in DOMAIN store[gs[i]]
                THEN ps[<<gs[i], topic>>] ELSE <<>>])

\* the (topic, partition) pairs in the order the loop of GetBrokerOffsets
\* takes them: the topics of tpMap in the order ts
tpSequence(store, gs, ps, ts) ==
    Flatten([i \in 1..Len(ts) |->
                LET partitions == tpMapOf(store, gs, ps, ts[i])
                IN  [j \in 1..Len(partitions) |-> <<ts[i], partitions[j]>>]])

\* every order GetBrokerOffsets may take the pairs of the store in
getTopicsAndPartitionsOrders(store) ==
    {tpSequence(store, gs, ps, ts) :
        gs \in Perms(DOMAIN store),
        ps \in PartitionOrders(store),
        ts \in Perms(StoreTopics(store))}

(***************************************************************************)
(* The batch of GetBrokerOffsets: leader ID -> the blocks of its request.  *)
(***************************************************************************)
NoLeader == 0

AddBlockAlways(requests, leaderBrokerID, tp) ==
    IF leaderBrokerID \notin DOMAIN requests
    THEN Put(requests, leaderBrokerID, {tp})
    ELSE Put(requests, leaderBrokerID, requests[leaderBrokerID] \cup {tp})

\* lines 136-144: a new leader gets a request with no block; a block is
\* added only to a request that is already there
addToRequests(requests, leaderBrokerID, tp) ==
    IF leaderBrokerID \notin DOMAIN requests
    THEN Put(requests, leaderBrokerID, {})
    ELSE Put(requests, leaderBrokerID, requests[leaderBrokerID] \cup {tp})

(***************************************************************************)
(* computeLag.                                                             *)
(***************************************************************************)
RECURSIVE Digits(_)
Digits(n) == IF n < 10 THEN <<48 + n>> ELSE Append(Digits(n \div 10), 48 + (n % 10))

\* %d
Itoa(n) == IF n < 0 THEN <<45>> \o Digits(0 - n) ELSE Digits(n)

\* the name with the topic before the group
StatTopicFirst(group, topic, partition) ==
    Prefix \o <<46, 103, 114, 111, 117, 112, 46>> \o topic \o <<46>> \o group
        \o <<46>> \o Itoa(partition)

\* fmt.Sprintf("%s.group.%s.%s.%d", prefix, group, topic, partition)
Stat(group, topic, partition) ==
    Prefix \o <<46, 103, 114, 111, 117, 112, 46>> \o group \o <<46>> \o topic
        \o <<46>> \o Itoa(partition)

LagSwapped(brokerOffsetMap, consumerOffsetMap, group, topic, partition) ==
    GTPOffset(consumerOffsetMap, group, topic, partition)
        - TPOffset(brokerOffsetMap, topic, partition)

\* line 218
Lag(brokerOffsetMap, consumerOffsetMap, group, topic, partition) ==
    TPOffset(brokerOffsetMap, topic, partition)
        - GTPOffset(consumerOffsetMap, group, topic, partition)

EmitsAll(lag) == TRUE

\* lines 221-225: a negative lag is logged and not sent
Emits(lag) == ~(lag < 0)


(***************************************************************************)
(* The state.                                                              *)
(***************************************************************************)
VARIABLES
    pc,                        \* where Start's goroutine is
    ingestor,                  \* where the goroutine of GetConsumerOffsets is
    ConsumerOffsetStore,       \* group -> topic -> partition -> offset
    ConsumerOffsetStoreMutex,  \* its holder, or Free
    BrokerOffsetStore,         \* topic -> partition -> offset
    BrokerOffsetStoreMutex,    \* its holder, or Free
    wgConsumerMessages,        \* the WaitGroup counters
    wgBrokerOffsetResponse,
    delivered,                 \* the number of records the stream delivered
    formatters,                \* the goroutines of formatConsumerOffsetMessage
    tpQueue,                   \* GetBrokerOffsets: the pairs still to resolve
    brokerOffsetRequests,      \* GetBrokerOffsets: leader ID -> blocks
    brokerOffsetRequest,       \* the variable of the loop of lines 175-178
    spawnLeft,                 \* the requests that loop has not reached
    responders,                \* the goroutines of getOffsetResponse
    lagKeys,                   \* computeLag: keys of the store the range owes
    lagVisited,                \* computeLag: keys the range has produced
    gauges,                    \* the goroutines of sendGaugeToStatsd
    latest,                    \* the cluster: (topic, partition) -> log end offset
    \* history of the current tick and of the upserts, read by the properties
    resolved,                  \* (pair, leader or NoLeader) of each Leader call
    requestsSent,              \* (goroutine, broker, blocks) of each request
    failedLeaders,             \* brokers whose request returned an error
    failedBlocks,              \* pairs whose response block had an error
    tickProduced,              \* pairs produced to since the tick began
    tickStored,                \* keys of the consumer store written since then
    tickAnswered,              \* pairs upserted into the broker store since then
    tickLag,                   \* key -> the lag computeLag computed
    tickGauges,                \* the (stat, value) computeLag handed to statsd
    lastCommit,                \* key -> offset of the last commit delivered
    lastUpsert,                \* key -> offset of the last upsert, both stores
    rejected                   \* the records formatConsumerOffsetMessage dropped

progVars ==
    <<pc, ingestor, ConsumerOffsetStore, ConsumerOffsetStoreMutex,
      BrokerOffsetStore, BrokerOffsetStoreMutex, wgConsumerMessages,
      wgBrokerOffsetResponse, delivered, formatters, tpQueue,
      brokerOffsetRequests, brokerOffsetRequest, spawnLeft, responders,
      lagKeys, lagVisited, gauges, latest>>

histVars ==
    <<resolved, requestsSent, failedLeaders, failedBlocks, tickProduced,
      tickStored, tickAnswered, tickLag, tickGauges, lastCommit, lastUpsert,
      rejected>>

vars == <<progVars, histVars>>

Free == 0
\* the holder of a mutex locked by Start's goroutine; a formatter holds it
\* under its number (1, 2, ...), a responder under its leader's broker ID
Driver == -1

\* the partitions of __consumer_offsets the ingestor tails
OffsetTopicPartitions == {0, 1}

(***************************************************************************)
(* The environment of each specification: the brokers of the cluster, the  *)
(* partitions it has, and the records the offset topic may deliver.        *)
(***************************************************************************)
BrokerA == 1
BrokerB == 2

\* an offset commit as the cluster meant it
Commit(group, topic, partition, offset) ==
    [Group |-> group, Topic |-> topic, Partition |-> partition, Offset |-> offset]

\* a group metadata record: key version 2, the group only
GroupMetadataRecord(group) ==
    [Key |-> EncodeUnsigned(2, 2) \o EncodeString(group),
     Value |-> CommitValue(1, 0, <<>>, 1)]

\* a record cut to its first n key bytes
TruncatedKey(record, n) == [record EXCEPT !.Key = SubSeq(record.Key, 1, n)]

\* a record cut to its first n value bytes
TruncatedValue(record, n) == [record EXCEPT !.Value = SubSeq(record.Value, 1, n)]

\* a record with another value version
ValueVersion(record, ver) ==
    [record EXCEPT !.Value = EncodeUnsigned(ver, 2)
                                \o SubSeq(record.Value, 3, Len(record.Value))]

\* a record with another key version
KeyVersion(record, ver) ==
    [record EXCEPT !.Key = EncodeUnsigned(ver, 2)
                              \o SubSeq(record.Key, 3, Len(record.Key))]


IsPrefix(a, b) == Len(a) <= Len(b) /\ SubSeq(b, 1, Len(a)) = a

\* the fields a record may have been built from
FieldNames == {G1, G2, T1, T2}
FieldPartitions == {-1, 0, 1}
FieldOffsets == -1..3
FieldMetadata == {<<>>, <<120>>}
FieldTimestamps == {1}

\* the offset commits a record is the encoding of (none, or one): the key
\* begins with a version 0 or 1 key and the value with a version 0 or 1 value
CommitsOf(record) ==
    {c \in [Group : FieldNames, Topic : FieldNames,
            Partition : FieldPartitions, Offset : FieldOffsets] :
        /\ \E kv \in {0, 1} :
             IsPrefix(CommitKey(kv, c.Group, c.Topic, c.Partition), record.Key)
        /\ \E vv \in {0, 1}, m \in FieldMetadata, ts \in FieldTimestamps :
             IsPrefix(CommitValue(vv, c.Offset, m, ts), record.Value)}

\* the records of the full system: commits of two groups on one partition,
\* a commit on a second topic, and a record that is no offset commit
Records ==
    {CommitRecord(G1, T1, 0, 1), CommitRecord(G1, T1, 0, 2),
     CommitRecord(G2, T1, 0, 1), CommitRecord(G1, T2, 0, 1),
     GroupMetadataRecord(G1)}

\* the records of the ingestor on its own
IngestRecords ==
    LET r == CommitRecord(G1, T1, 0, 1) IN
    {CommitRecord(G1, T1, 0, 1), CommitRecord(G1, T1, 0, 2),
     CommitRecord(G2, T1, 1, 1), CommitRecord(G1, T2, 0, 2)}
        \cup {GroupMetadataRecord(G1), KeyVersion(r, 3), ValueVersion(r, 2),
              ValueVersion(r, 0), KeyVersion(r, 0),
              TruncatedKey(r, 1), TruncatedKey(r, 5), TruncatedKey(r, 12),
              TruncatedValue(r, 0), TruncatedValue(r, 9),
              TruncatedValue(r, 11), TruncatedValue(r, 19),
              [r EXCEPT !.Value = r.Value \o <<0, 0, 0, 0, 0, 0, 0, 9>>]}

\* what each record means
Meaning == [r \in Records \cup IngestRecords |-> CommitsOf(r)]

Key(c) == <<c.Group, c.Topic, c.Partition>>

Remove(m, k) == [x \in DOMAIN m \ {k} |-> m[x]]


(***************************************************************************)
(* Variable groups.                                                        *)
(***************************************************************************)
consumerVars == <<ConsumerOffsetStore, ConsumerOffsetStoreMutex>>
brokerVars == <<BrokerOffsetStore, BrokerOffsetStoreMutex>>
ingestVars == <<ingestor, wgConsumerMessages, delivered, formatters>>
pollVars == <<tpQueue, brokerOffsetRequests, brokerOffsetRequest, spawnLeft>>
responseVars == <<wgBrokerOffsetResponse, responders>>
lagVars == <<lagKeys, lagVisited>>
sinkVars == <<gauges>>
pollHist == <<resolved, requestsSent, failedLeaders, failedBlocks>>
lagHist == <<tickLag, tickGauges>>
tickHist == <<tickProduced, tickStored, tickAnswered>>
upsertHist == <<lastCommit, lastUpsert, rejected>>

\* a tick is under way: GetBrokerOffsets has its snapshot of the pairs, or
\* computeLag runs
InTick == pc \in {"Leader", "getOffsetResponse", "Wait", "computeLag"}

(***************************************************************************)
(* The initial states.                                                     *)
(***************************************************************************)
\* what NewQueueSizeMonitor leaves, but for the consumer offset store
InitMonitor ==
    /\ ConsumerOffsetStoreMutex = Free
    /\ BrokerOffsetStore = EmptyMap
    /\ BrokerOffsetStoreMutex = Free
    /\ wgBrokerOffsetResponse = 0
    /\ formatters = EmptyMap
    /\ tpQueue = <<>>
    /\ brokerOffsetRequests = EmptyMap
    /\ brokerOffsetRequest = NoLeader
    /\ spawnLeft = {}
    /\ responders = EmptyMap
    /\ lagKeys = {}
    /\ lagVisited = {}
    /\ gauges = {}
    /\ resolved = {}
    /\ requestsSent = {}
    /\ failedLeaders = {}
    /\ failedBlocks = {}
    /\ tickProduced = {}
    /\ tickStored = {}
    /\ tickAnswered = {}
    /\ tickLag = EmptyMap
    /\ tickGauges = {}
    /\ rejected = EmptyMap

\* the monitor as constructed, Start not yet called; the cluster has one
\* partition, with nothing produced to it yet
Init ==
    /\ InitMonitor
    /\ pc = "Start"
    /\ ingestor = "notStarted"
    /\ delivered = 0
    /\ ConsumerOffsetStore = EmptyMap
    /\ wgConsumerMessages = 0
    /\ latest = (<<T1, 0>> :> 0)
    /\ lastCommit = EmptyMap
    /\ lastUpsert = [consumer |-> EmptyMap, broker |-> EmptyMap]

(***************************************************************************)
(* Start and the ingestor.                                                 *)
(***************************************************************************)
\* line 59: go qsm.GetConsumerOffsets(), then the loop
Start ==
    /\ pc = "Start"
    /\ pc' = "getTopicsAndPartitions"
    /\ ingestor' = "GetConsumerOffsets"
    /\ UNCHANGED <<consumerVars, brokerVars, wgConsumerMessages, delivered,
                   formatters, pollVars, responseVars, lagVars, sinkVars,
                   latest, histVars>>

\* GetConsumerOffsets up to its Wait: the partitions are listed, or the
\* ingestor logs the error and returns; two goroutines per partition.  The
\* partitions in opened are those ConsumePartition opened: for the others
\* the error is logged and the nil pConsumer is handed to the goroutines
\* all the same (lines 103-110)
GetConsumerOffsets(listed, opened) ==
    /\ ingestor = "GetConsumerOffsets"
    /\ IF listed
       THEN /\ ingestor' = IF opened = OffsetTopicPartitions
                           THEN "Wait" ELSE "nilConsumer"
            /\ wgConsumerMessages' =
                   wgConsumerMessages + 2 * Cardinality(OffsetTopicPartitions)
       ELSE /\ ingestor' = "returned"
            /\ UNCHANGED wgConsumerMessages
    /\ UNCHANGED <<pc, consumerVars, brokerVars, delivered, formatters,
                   pollVars, responseVars, lagVars, sinkVars, latest, histVars>>

\* getConsumerMessages with the nil pConsumer, line 89: consumer.Messages()
\* on a nil interface value is a run-time panic in a goroutine, which ends
\* the process: Start's goroutine and every other goroutine are gone
getConsumerMessagesNil ==
    /\ ingestor = "nilConsumer"
    /\ ingestor' = "panic"
    /\ pc' = "panic"
    /\ formatters' = EmptyMap
    /\ responders' = EmptyMap
    /\ gauges' = {}
    /\ UNCHANGED <<consumerVars, brokerVars, wgConsumerMessages, delivered,
                   pollVars, wgBrokerOffsetResponse, lagVars, latest, histVars>>

\* getConsumerMessages, lines 89-91: a record arrives on the stream and a
\* goroutine is started for it
getConsumerMessages(message) ==
    /\ ingestor = "Wait"
    /\ delivered < MaxRecords
    /\ delivered' = delivered + 1
    /\ wgConsumerMessages' = wgConsumerMessages + 1
    /\ formatters' = Put(formatters, delivered + 1,
                         [pc |-> "format", message |-> message, po |-> NoOffset])
    /\ lastCommit' =
           IF Meaning[message] = {} THEN lastCommit
           ELSE LET c == CHOOSE c \in Meaning[message] : TRUE
                IN  Put(lastCommit, Key(c), c.Offset)
    /\ UNCHANGED <<pc, ingestor, consumerVars, brokerVars, pollVars,
                   responseVars, lagVars, sinkVars, latest, pollHist, lagHist,
                   tickHist, lastUpsert, rejected>>

\* formatConsumerOffsetMessage, lines 278-359: the record is parsed; on an
\* error the goroutine returns
formatConsumerOffsetMessage(w) ==
    /\ w \in DOMAIN formatters
    /\ formatters[w].pc = "format"
    /\ LET po == parseMessage(formatters[w].message) IN
       IF po.err
       THEN /\ formatters' = Remove(formatters, w)
            /\ wgConsumerMessages' = wgConsumerMessages - 1
            /\ rejected' = Put(rejected, w, formatters[w].message)
       ELSE /\ formatters' = Put(formatters, w,
                                 [formatters[w] EXCEPT !.pc = "store", !.po = po])
            /\ UNCHANGED <<wgConsumerMessages, rejected>>
    /\ UNCHANGED <<pc, ingestor, consumerVars, brokerVars, delivered, pollVars,
                   responseVars, lagVars, sinkVars, latest, pollHist, lagHist,
                   tickHist, lastCommit, lastUpsert>>

\* a Lock that does not wait for the mutex to be free
storeConsumerOffsetLockTaken(w) ==
    /\ w \in DOMAIN formatters
    /\ formatters[w].pc = "store"
    /\ ConsumerOffsetStoreMutex' = w
    /\ formatters' = Put(formatters, w, [formatters[w] EXCEPT !.pc = "locked"])
    /\ UNCHANGED <<pc, ingestor, ConsumerOffsetStore, brokerVars,
                   wgConsumerMessages, delivered, pollVars, responseVars,
                   lagVars, sinkVars, latest, histVars>>

\* storeConsumerOffset, line 241: Lock
storeConsumerOffsetLock(w) ==
    /\ w \in DOMAIN formatters
    /\ formatters[w].pc = "store"
    /\ ConsumerOffsetStoreMutex = Free
    /\ ConsumerOffsetStoreMutex' = w
    /\ formatters' = Put(formatters, w, [formatters[w] EXCEPT !.pc = "locked"])
    /\ UNCHANGED <<pc, ingestor, ConsumerOffsetStore, brokerVars,
                   wgConsumerMessages, delivered, pollVars, responseVars,
                   lagVars, sinkVars, latest, histVars>>

\* storeConsumerOffset, lines 242-250, the deferred Unlock, and the
\* deferred Done of formatConsumerOffsetMessage
storeConsumerOffset(w) ==
    /\ w \in DOMAIN formatters
    /\ formatters[w].pc = "locked"
    /\ LET po == formatters[w].po IN
       /\ ConsumerOffsetStore' = storeConsumerOffsetMap(ConsumerOffsetStore, po)
       /\ tickStored' = IF InTick
                         THEN tickStored \cup {<<po.Group, po.Topic, po.Partition>>}
                         ELSE tickStored
       /\ lastUpsert' =
              [lastUpsert EXCEPT !.consumer =
                  Put(@, <<po.Group, po.Topic, po.Partition>>, po.Offset)]
    /\ ConsumerOffsetStoreMutex' = Free
    /\ formatters' = Remove(formatters, w)
    /\ wgConsumerMessages' = wgConsumerMessages - 1
    /\ UNCHANGED <<pc, ingestor, brokerVars, delivered, pollVars, responseVars,
                   lagVars, sinkVars, latest, pollHist, lagHist, tickProduced,
                   tickAnswered, lastCommit, rejected>>


(***************************************************************************)
(* GetBrokerOffsets.                                                       *)
(***************************************************************************)
\* getTopicsAndPartitions, line 185: Lock
getTopicsAndPartitionsLock ==
    /\ pc = "getTopicsAndPartitions"
    /\ ConsumerOffsetStoreMutex = Free
    /\ ConsumerOffsetStoreMutex' = Driver
    /\ pc' = "getTopicsAndPartitionsLocked"
    /\ UNCHANGED <<ConsumerOffsetStore, brokerVars, ingestVars, pollVars,
                   responseVars, lagVars, sinkVars, latest, histVars>>

\* getTopicsAndPartitions, lines 186-194 and the deferred Unlock, and
\* line 124
getTopicsAndPartitions ==
    /\ pc = "getTopicsAndPartitionsLocked"
    /\ \E tps \in getTopicsAndPartitionsOrders(ConsumerOffsetStore) :
         /\ tpQueue' = tps
         /\ pc' = IF tps = <<>> THEN "Wait" ELSE "Leader"
    /\ ConsumerOffsetStoreMutex' = Free
    /\ brokerOffsetRequests' = EmptyMap
    /\ brokerOffsetRequest' = NoLeader
    /\ spawnLeft' = {}
    /\ UNCHANGED <<ConsumerOffsetStore, brokerVars, ingestVars, responseVars,
                   lagVars, sinkVars, latest, histVars>>

\* lines 129-144, one pair: the client names the leader of the pair, or
\* fails (leader = NoLeader)
Leader(leader) ==
    /\ pc = "Leader"
    /\ LET tp == Head(tpQueue)
           requests == IF leader = NoLeader THEN brokerOffsetRequests
                       ELSE addToRequests(brokerOffsetRequests, leader, tp)
       IN  /\ leader # NoLeader => tp \in DOMAIN latest
           /\ resolved' = resolved \cup {<<tp, leader>>}
           /\ brokerOffsetRequests' = requests
           /\ tpQueue' = Tail(tpQueue)
           /\ IF Tail(tpQueue) # <<>>
              THEN pc' = "Leader" /\ spawnLeft' = {}
              ELSE /\ spawnLeft' = DOMAIN requests
                   /\ pc' = IF DOMAIN requests = {} THEN "Wait"
                            ELSE "getOffsetResponse"
    /\ UNCHANGED <<consumerVars, brokerVars, ingestVars, brokerOffsetRequest,
                   responseVars, lagVars, sinkVars, latest, requestsSent,
                   failedLeaders, failedBlocks, lagHist, tickHist, upsertHist>>

\* lines 175-178, one request: the loop variable takes the request, the
\* counter is raised and a goroutine is started with the variable's address
goGetOffsetResponse(leader) ==
    /\ pc = "getOffsetResponse"
    /\ leader \in spawnLeft
    /\ brokerOffsetRequest' = leader
    /\ wgBrokerOffsetResponse' = wgBrokerOffsetResponse + 1
    /\ responders' = Put(responders, leader,
                         [pc |-> "Broker", broker |-> NoLeader,
                          todo |-> EmptyMap, cur |-> <<>>])
    /\ spawnLeft' = spawnLeft \ {leader}
    /\ pc' = IF spawnLeft = {leader} THEN "Wait" ELSE "getOffsetResponse"
    /\ UNCHANGED <<consumerVars, brokerVars, ingestVars, tpQueue,
                   brokerOffsetRequests, lagVars, sinkVars, latest, histVars>>

\* what a goroutine may find behind the pointer it was given: the request
\* of its own iteration (each iteration has a variable of its own, or the
\* loop has not moved on) or the request the loop variable holds now
Pointee(w) == {w, brokerOffsetRequest}

\* line 150, request.Broker
getOffsetResponseBroker(w, broker) ==
    /\ w \in DOMAIN responders
    /\ responders[w].pc = "Broker"
    /\ broker \in Pointee(w)
    /\ responders' = Put(responders, w,
           [responders[w] EXCEPT !.pc = "GetAvailableOffsets", !.broker = broker])
    /\ UNCHANGED <<pc, consumerVars, brokerVars, ingestVars, pollVars,
                   wgBrokerOffsetResponse, lagVars, sinkVars, latest, histVars>>

\* the blocks a broker answers without an error: those of partitions it
\* leads, which the batch routes to it
Answerable(broker, request) ==
    IF broker = request THEN brokerOffsetRequests[request] ELSE {}

\* lines 150-155: the request fails; Close, and the deferred Done
GetAvailableOffsetsError(w, request) ==
    /\ w \in DOMAIN responders
    /\ responders[w].pc = "GetAvailableOffsets"
    /\ request \in Pointee(w)
    /\ requestsSent' = requestsSent \cup
           {<<w, responders[w].broker, brokerOffsetRequests[request]>>}
    /\ failedLeaders' = failedLeaders \cup {responders[w].broker}
    /\ responders' = Remove(responders, w)
    /\ wgBrokerOffsetResponse' = wgBrokerOffsetResponse - 1
    /\ UNCHANGED <<pc, consumerVars, brokerVars, ingestVars, pollVars, lagVars,
                   sinkVars, latest, resolved, failedBlocks, lagHist, tickHist,
                   upsertHist>>

\* lines 150, 157-163: the response; the blocks in ok carry no error and
\* the log end offset of their partition
GetAvailableOffsets(w, request, ok) ==
    /\ w \in DOMAIN responders
    /\ responders[w].pc = "GetAvailableOffsets"
    /\ request \in Pointee(w)
    /\ ok \subseteq Answerable(responders[w].broker, request)
    /\ requestsSent' = requestsSent \cup
           {<<w, responders[w].broker, brokerOffsetRequests[request]>>}
    /\ failedBlocks' = failedBlocks \cup (brokerOffsetRequests[request] \ ok)
    /\ responders' = Put(responders, w,
           [responders[w] EXCEPT !.pc = "store",
                                 !.todo = [tp \in ok |-> latest[tp]]])
    /\ UNCHANGED <<pc, consumerVars, brokerVars, ingestVars, pollVars,
                   wgBrokerOffsetResponse, lagVars, sinkVars, latest, resolved,
                   failedLeaders, lagHist, tickHist, upsertHist>>

\* storeBrokerOffset, line 256: Lock, for one block of the response
storeBrokerOffsetLock(w, tp) ==
    /\ w \in DOMAIN responders
    /\ responders[w].pc = "store"
    /\ tp \in DOMAIN responders[w].todo
    /\ BrokerOffsetStoreMutex = Free
    /\ BrokerOffsetStoreMutex' = w
    /\ responders' = Put(responders, w,
           [responders[w] EXCEPT !.pc = "locked", !.cur = tp])
    /\ UNCHANGED <<pc, consumerVars, BrokerOffsetStore, ingestVars, pollVars,
                   wgBrokerOffsetResponse, lagVars, sinkVars, latest, histVars>>

\* storeBrokerOffset, lines 257-261 and the deferred Unlock
storeBrokerOffset(w) ==
    /\ w \in DOMAIN responders
    /\ responders[w].pc = "locked"
    /\ LET tp == responders[w].cur
           po == [Topic |-> tp[1], Partition |-> tp[2],
                  Offset |-> responders[w].todo[tp]]
       IN  /\ BrokerOffsetStore' = storeBrokerOffsetMap(BrokerOffsetStore, po)
           /\ tickAnswered' = tickAnswered \cup {tp}
           /\ lastUpsert' = [lastUpsert EXCEPT !.broker = Put(@, tp, po.Offset)]
           /\ responders' = Put(responders, w,
                  [responders[w] EXCEPT !.pc = "store", !.cur = <<>>,
                                        !.todo = Remove(@, tp)])
    /\ BrokerOffsetStoreMutex' = Free
    /\ UNCHANGED <<pc, consumerVars, ingestVars, pollVars,
                   wgBrokerOffsetResponse, lagVars, sinkVars, latest, pollHist,
                   lagHist, tickProduced, tickStored, lastCommit, rejected>>

\* line 149: the deferred Done, the blocks of the response all handled
getOffsetResponseDone(w) ==
    /\ w \in DOMAIN responders
    /\ responders[w].pc = "store"
    /\ DOMAIN responders[w].todo = {}
    /\ responders' = Remove(responders, w)
    /\ wgBrokerOffsetResponse' = wgBrokerOffsetResponse - 1
    /\ UNCHANGED <<pc, consumerVars, brokerVars, ingestVars, pollVars, lagVars,
                   sinkVars, latest, histVars>>

WaitReturnsAtOnce(counter) == TRUE

\* sync.WaitGroup.Wait returns when the counter is zero
WaitReturns(counter) == counter = 0

\* line 179, and computeLag begins to range over the consumer offset store
Wait ==
    /\ pc = "Wait"
    /\ WaitReturns(wgBrokerOffsetResponse)
    /\ pc' = "computeLag"
    /\ lagKeys' = GTPKeys(ConsumerOffsetStore)
    /\ lagVisited' = {}
    /\ UNCHANGED <<consumerVars, brokerVars, ingestVars, pollVars,
                   responseVars, sinkVars, latest, histVars>>

(***************************************************************************)
(* computeLag and the sink.                                                *)
(***************************************************************************)
\* lines 217-232, one (group, topic, partition).  The range produces every
\* key that was in the store when it began, and may produce one added since.
computeLag(key) ==
    /\ pc = "computeLag"
    /\ key \in GTPKeys(ConsumerOffsetStore) \ lagVisited
    /\ LET lag == Lag(BrokerOffsetStore, ConsumerOffsetStore,
                      key[1], key[2], key[3])
           stat == Stat(key[1], key[2], key[3])
       IN  /\ tickLag' = Put(tickLag, key, lag)
           /\ IF Emits(lag)
              THEN /\ gauges' = gauges \cup {<<stat, lag>>}
                   /\ tickGauges' = tickGauges \cup {<<stat, lag>>}
              ELSE UNCHANGED <<gauges, tickGauges>>
    /\ lagVisited' = lagVisited \cup {key}
    /\ lagKeys' = lagKeys \ {key}
    /\ UNCHANGED <<pc, consumerVars, brokerVars, ingestVars, pollVars,
                   responseVars, latest, pollHist, tickHist, upsertHist>>

\* computeLag returns, and line 63.  The tick ends here, and its history.
computeLagReturn ==
    /\ pc = "computeLag"
    /\ lagKeys = {}
    /\ pc' = "Sleep"
    /\ lagVisited' = {}
    /\ resolved' = {}
    /\ requestsSent' = {}
    /\ failedLeaders' = {}
    /\ failedBlocks' = {}
    /\ tickProduced' = {}
    /\ tickStored' = {}
    /\ tickAnswered' = {}
    /\ tickLag' = EmptyMap
    /\ tickGauges' = {}
    /\ UNCHANGED <<consumerVars, brokerVars, ingestVars, pollVars,
                   responseVars, lagKeys, sinkVars, latest, upsertHist>>

\* the interval has passed
Sleep ==
    /\ pc = "Sleep"
    /\ pc' = "getTopicsAndPartitions"
    /\ UNCHANGED <<consumerVars, brokerVars, ingestVars, pollVars,
                   responseVars, lagVars, sinkVars, latest, histVars>>

\* sendGaugeToStatsd: the goroutine gives the gauge to the statsd client and
\* ends
sendGaugeToStatsd(gauge) ==
    /\ gauge \in gauges
    /\ gauges' = gauges \ {gauge}
    /\ UNCHANGED <<pc, consumerVars, brokerVars, ingestVars, pollVars,
                   responseVars, lagVars, latest, histVars>>

(***************************************************************************)
(* The cluster.                                                            *)
(***************************************************************************)
\* a message is produced to a partition
Produce(tp) ==
    /\ tp \in DOMAIN latest
    /\ latest[tp] < MaxOffset
    /\ latest' = [latest EXCEPT ![tp] = @ + 1]
    /\ tickProduced' = IF InTick THEN tickProduced \cup {tp} ELSE tickProduced
    /\ UNCHANGED <<pc, consumerVars, brokerVars, ingestVars, pollVars,
                   responseVars, lagVars, sinkVars, pollHist, lagHist,
                   tickStored, tickAnswered, upsertHist>>

(***************************************************************************)
(* The specifications.                                                     *)
(***************************************************************************)
AllTPs == {<<T1, 0>>, <<T1, 1>>, <<T2, 0>>}
AllKeys == {<<g, tp[1], tp[2]>> : g \in {G1, G2}, tp \in AllTPs}

Ingest(records) ==
    \/ \E listed \in BOOLEAN : GetConsumerOffsets(listed, OffsetTopicPartitions)
    \/ \E message \in records : getConsumerMessages(message)
    \/ \E w \in 1..(MaxRecords + 1) : formatConsumerOffsetMessage(w)
    \/ \E w \in 1..(MaxRecords + 1) : storeConsumerOffsetLock(w)
    \/ \E w \in 1..(MaxRecords + 1) : storeConsumerOffset(w)

Poll(brokers) ==
    \/ getTopicsAndPartitionsLock
    \/ getTopicsAndPartitions
    \/ \E leader \in brokers \cup {NoLeader} : Leader(leader)
    \/ \E leader \in brokers : goGetOffsetResponse(leader)
    \/ \E w \in brokers, broker \in brokers : getOffsetResponseBroker(w, broker)
    \/ \E w \in brokers, request \in brokers : GetAvailableOffsetsError(w, request)
    \/ \E w \in brokers, request \in brokers, ok \in SUBSET AllTPs :
           GetAvailableOffsets(w, request, ok)
    \/ \E w \in brokers, tp \in AllTPs : storeBrokerOffsetLock(w, tp)
    \/ \E w \in brokers : storeBrokerOffset(w)
    \/ \E w \in brokers : getOffsetResponseDone(w)
    \/ Wait

Report ==
    \/ \E key \in GTPKeys(ConsumerOffsetStore) : computeLag(key)
    \/ computeLagReturn
    \/ Sleep
    \/ \E gauge \in gauges : sendGaugeToStatsd(gauge)

Cluster == \E tp \in DOMAIN latest : Produce(tp)

\* the whole monitor, with one broker
Next ==
    \/ Start
    \/ Ingest(Records)
    \/ Poll({BrokerA})
    \/ Report
    \/ Cluster

Spec == Init /\ [][Next]_vars


(***************************************************************************)
(* The poll and the report on their own: the consumer offset store holds   *)
(* the commits of a warm ingestor whose streams are idle, before a tick.   *)
(***************************************************************************)
RECURSIVE StoreOf(_)
\* the consumer offset store after the upserts of the commits cs
StoreOf(cs) ==
    IF cs = <<>> THEN EmptyMap
    ELSE storeConsumerOffsetMap(StoreOf(SubSeq(cs, 1, Len(cs) - 1)), cs[Len(cs)])

RECURSIVE FlatOf(_)
FlatOf(cs) ==
    IF cs = <<>> THEN EmptyMap
    ELSE Put(FlatOf(SubSeq(cs, 1, Len(cs) - 1)), Key(cs[Len(cs)]), cs[Len(cs)].Offset)

WarmCommits ==
    {<<Commit(G1, T1, 0, 1), Commit(G1, T1, 1, 1), Commit(G1, T2, 0, 1)>>,
     <<Commit(G1, T1, 0, 1), Commit(G2, T1, 0, 0), Commit(G2, T2, 0, 1)>>}

InitPoll ==
    /\ InitMonitor
    /\ pc = "Sleep"
    /\ ingestor = "Wait"
    /\ wgConsumerMessages = 2 * Cardinality(OffsetTopicPartitions)
    /\ latest = [tp \in AllTPs |-> 1]
    /\ \E cs \in WarmCommits :
         /\ delivered = Len(cs)
         /\ ConsumerOffsetStore = StoreOf(cs)
         /\ lastCommit = FlatOf(cs)
         /\ lastUpsert = [consumer |-> FlatOf(cs), broker |-> EmptyMap]

\* the ticks of a cluster of two brokers, nothing produced meanwhile
NextPoll ==
    \/ Poll({BrokerA, BrokerB})
    \/ Report

SpecPoll == InitPoll /\ [][NextPoll]_vars

(***************************************************************************)
(* The ingestor on its own, Start's goroutine not yet at its first tick.   *)
(***************************************************************************)
InitIngest ==
    /\ InitMonitor
    /\ pc = "getTopicsAndPartitions"
    /\ ingestor = "GetConsumerOffsets"
    /\ delivered = 0
    /\ ConsumerOffsetStore = EmptyMap
    /\ wgConsumerMessages = 0
    /\ latest = [tp \in AllTPs |-> 0]
    /\ lastCommit = EmptyMap
    /\ lastUpsert = [consumer |-> EmptyMap, broker |-> EmptyMap]

NextIngest == Ingest(IngestRecords)

SpecIngest == InitIngest /\ [][NextIngest]_vars

(***************************************************************************)
(* The monitor in a cluster where any call of the client may fail: the     *)
(* listing of the partitions, the opening of a stream, a leader lookup, a  *)
(* request.                                                                *)
(***************************************************************************)
Startup ==
    \/ \E listed \in BOOLEAN, opened \in SUBSET OffsetTopicPartitions :
           GetConsumerOffsets(listed, opened)
    \/ getConsumerMessagesNil

NextStartup ==
    \/ Start
    \/ Startup
    \/ Ingest(Records)
    \/ Poll({BrokerA})
    \/ Report
    \/ Cluster

SpecStartup == Init /\ [][NextStartup]_vars

(***************************************************************************)
(* formatConsumerOffsetMessage on its own: one record has arrived on the   *)
(* stream and its goroutine has been started (lines 89-91).                *)
(***************************************************************************)
\* the commits the records of the codec are built from
CodecCommits ==
    [Group : {<<>>, G1}, Topic : {<<>>, T1}, Partition : {-1, 0, 258},
     Offset : {-1, 0, 2, 300}]

\* the record of a commit, with key version kv, value version vv and
\* metadata md
Encoded(c, kv, vv, md) ==
    [Key |-> CommitKey(kv, c.Group, c.Topic, c.Partition),
     Value |-> CommitValue(vv, c.Offset, md, 1)]

\* every offset commit record of key version 0 or 1 and value version 0 or 1
CommitRecords ==
    {Encoded(c, kv, vv, md) :
        c \in CodecCommits, kv \in {0, 1}, vv \in {0, 1}, md \in FieldMetadata}

\* well-formed records of key version 2
GroupMetadataRecords == {GroupMetadataRecord(g) : g \in {<<>>, G1, G2}}

\* the commit records that are cut
CutRecords ==
    {Encoded(Commit(G1, T1, 1, 2), kv, vv, md) :
        kv \in {0, 1}, vv \in {0, 1}, md \in FieldMetadata}

\* a commit record whose key or value ends before its last field does
TruncatedRecords ==
    UNION {{TruncatedKey(r, n) : n \in 0..(Len(r.Key) - 1)}
             \cup {TruncatedValue(r, n) : n \in 0..(Len(r.Value) - 1)}
           : r \in CutRecords}

\* a record with the commit it was built from, if any
CodecInputs ==
    {[message |-> Encoded(c, kv, vv, md), commit |-> Put(EmptyMap, Key(c), c.Offset)] :
        c \in CodecCommits, kv \in {0, 1}, vv \in {0, 1}, md \in FieldMetadata}
      \cup {[message |-> r, commit |-> EmptyMap] :
              r \in GroupMetadataRecords \cup TruncatedRecords}

InitCodec ==
    /\ pc = "getTopicsAndPartitions"
    /\ ingestor = "Wait"
    /\ delivered = 1
    /\ wgConsumerMessages = 2 * Cardinality(OffsetTopicPartitions) + 1
    /\ ConsumerOffsetStore = EmptyMap
    /\ ConsumerOffsetStoreMutex = Free
    /\ BrokerOffsetStore = EmptyMap
    /\ BrokerOffsetStoreMutex = Free
    /\ wgBrokerOffsetResponse = 0
    /\ tpQueue = <<>>
    /\ brokerOffsetRequests = EmptyMap
    /\ brokerOffsetRequest = NoLeader
    /\ spawnLeft = {}
    /\ responders = EmptyMap
    /\ lagKeys = {}
    /\ lagVisited = {}
    /\ gauges = {}
    /\ latest = [tp \in AllTPs |-> 0]
    /\ resolved = {}
    /\ requestsSent = {}
    /\ failedLeaders = {}
    /\ failedBlocks = {}
    /\ tickProduced = {}
    /\ tickStored = {}
    /\ tickAnswered = {}
    /\ tickLag = EmptyMap
    /\ tickGauges = {}
    /\ rejected = EmptyMap
    /\ lastUpsert = [consumer |-> EmptyMap, broker |-> EmptyMap]
    /\ \E input \in CodecInputs :
         /\ formatters = Put(EmptyMap, 1, [pc |-> "format",
                                           message |-> input.message,
                                           po |-> NoOffset])
         /\ lastCommit = input.commit

NextCodec ==
    \/ formatConsumerOffsetMessage(1)
    \/ storeConsumerOffsetLock(1)
    \/ storeConsumerOffset(1)

SpecCodec == InitCodec /\ [][NextCodec]_vars

(***************************************************************************)
(* Properties.                                                             *)
(***************************************************************************)
\* computeLag has produced every key it owes: the tick's report is complete
ReportComplete == pc = "computeLag" /\ lagKeys = {}

\* nothing disturbed the tick: no leader lookup, request or block failed,
\* nothing was produced and no commit was stored since the tick began
QuietTick ==
    /\ \A r \in resolved : r[2] # NoLeader
    /\ failedLeaders = {}
    /\ failedBlocks = {}
    /\ tickProduced = {}
    /\ tickStored = {}

\* C1: end to end.  With the commit c of (group, topic, partition) in the
\* store and the log end offset b >= c of the partition there for the
\* leader to return, a tick that nothing disturbs emits the gauge
\* <prefix>.group.<group>.<topic>.<partition> with value b - c.
C1_EndToEndLag ==
    (ReportComplete /\ QuietTick) =>
        \A key \in GTPKeys(ConsumerOffsetStore) :
            LET b == latest[<<key[2], key[3]>>]
                c == ConsumerOffsetStore[key[1]][key[2]][key[3]]
            IN  b >= c => <<Stat(key[1], key[2], key[3]), b - c>> \in tickGauges

\* the offset of the last upsert of a key, 0 for a key never upserted
LastUpsert(table, key) == IF key \in DOMAIN table THEN table[key] ELSE 0

\* C2: lag arithmetic.  Each lag computeLag computes for a (group, topic,
\* partition) is the broker offset last upserted for (topic, partition), 0
\* when there was none, minus the consumer offset last upserted for the key;
\* and computeLag computes one for every key the store held when it began.
C2_LagArithmetic ==
    /\ [][\A key \in DOMAIN tickLag' :
            (key \notin DOMAIN tickLag) =>
                tickLag'[key] = LastUpsert(lastUpsert.broker, <<key[2], key[3]>>)
                                  - LastUpsert(lastUpsert.consumer, key)]_vars
    /\ [](pc = "computeLag" =>
            \A key \in GTPKeys(ConsumerOffsetStore) :
                key \in lagKeys \/ key \in DOMAIN tickLag \/ key \in tickStored)

\* C2 witness: a positive lag from a known broker offset, and a negative
\* lag from a partition with no broker offset
C2_Witness ==
    /\ ReportComplete
    /\ \E key \in DOMAIN tickLag :
         /\ tickLag[key] = 1
         /\ LastUpsert(lastUpsert.broker, <<key[2], key[3]>>) = 2
         /\ LastUpsert(lastUpsert.consumer, key) = 1

\* C3: no negative gauge.  Every value handed to sendGaugeToStatsd is >= 0;
\* a key whose lag of the tick is negative has no gauge in the tick, and a
\* key whose lag is not negative has the gauge of that lag.
C3_NoNegativeGauge ==
    /\ \A gauge \in gauges \cup tickGauges : gauge[2] >= 0
    /\ \A key \in DOMAIN tickLag :
         LET stat == Stat(key[1], key[2], key[3]) IN
         IF tickLag[key] < 0
         THEN \A gauge \in tickGauges : gauge[1] # stat
         ELSE <<stat, tickLag[key]>> \in tickGauges

\* C3 witness: one tick with a negative lag, dropped, and a lag that is
\* not negative, its gauge waiting to be sent
C3_Witness ==
    /\ \E key \in DOMAIN tickLag : tickLag[key] < 0
    /\ \E key \in DOMAIN tickLag :
         /\ tickLag[key] >= 0
         /\ <<Stat(key[1], key[2], key[3]), tickLag[key]>> \in gauges

\* the brokers the tick's leader lookups named
ResolvedLeaders == {r[2] : r \in resolved} \ {NoLeader}

\* the pairs a leader lookup of the tick routed to the broker
RoutedTo(leader) == {r[1] : r \in {x \in resolved : x[2] = leader}}

\* C4: batching.  When the poll of a tick has returned, each leader named in
\* the tick was sent exactly one request, with a block for every pair
\* routed to it and for no other pair.
C4_Batching ==
    pc = "computeLag" =>
        \A leader \in ResolvedLeaders :
            \E sent \in requestsSent :
                /\ sent[2] = leader
                /\ sent[3] = RoutedTo(leader)
                /\ \A other \in requestsSent : other[2] = leader => other = sent

\* C5: partial failure.  When some leader lookups of a tick failed, the
\* broker offset store holds, after the poll, the log end offset of every
\* pair whose leader was named, answered its request and reported no error
\* for the pair.
C5_PartialFailure ==
    (pc = "computeLag" /\ \E r \in resolved : r[2] = NoLeader) =>
        \A r \in resolved :
            ( /\ r[2] # NoLeader
              /\ r[2] \notin failedLeaders
              /\ \E sent \in requestsSent : sent[2] = r[2]
              /\ r[1] \notin failedBlocks )
            => /\ r[1] \in TPKeys(BrokerOffsetStore)
               /\ BrokerOffsetStore[r[1][1]][r[1][2]] = latest[r[1]]

\* a store as a flat map from its keys
FlatGTP(store) == [key \in GTPKeys(store) |-> store[key[1]][key[2]][key[3]]]
FlatTP(store) == [tp \in TPKeys(store) |-> store[tp[1]][tp[2]]]

\* C6: overwrite semantics.  Whatever the interleaving of the goroutines,
\* each store holds exactly the keys upserted so far, each with the offset
\* of the last upsert of that key: no entry is lost or changed by an upsert
\* of another key.
C6_UpsertSemantics ==
    /\ FlatGTP(ConsumerOffsetStore) = lastUpsert.consumer
    /\ FlatTP(BrokerOffsetStore) = lastUpsert.broker

\* C6 witness: two goroutines have upserted two keys of the consumer store
\* after racing for the lock, a key holds a second offset, and the broker
\* store has an entry
C6_Witness ==
    /\ Cardinality(GTPKeys(ConsumerOffsetStore)) >= 2
    /\ formatters = EmptyMap
    /\ delivered >= 2
    /\ BrokerOffsetStore # EmptyMap
    /\ \E tp \in TPKeys(BrokerOffsetStore) : BrokerOffsetStore[tp[1]][tp[2]] = 2

\* C7: locking.  computeLag reads the consumer offset store only while no
\* goroutine of the ingestor is between Lock and Unlock of an upsert.
C7_ReadsUnderLock ==
    [][(pc = "computeLag" /\ lagVisited' # lagVisited /\ lagVisited' # {})
          => ConsumerOffsetStoreMutex \notin DOMAIN formatters]_vars

\* C8: per-partition order.  When every record the stream delivered has
\* been processed, the store holds, for each key, the offset of the last
\* commit the stream delivered for it.
C8_StreamOrder ==
    formatters = EmptyMap =>
        \A key \in DOMAIN lastCommit :
            GTPOffset(ConsumerOffsetStore, key[1], key[2], key[3]) = lastCommit[key]

\* C9: the barrier.  From the return of the poll to the time the next tick
\* starts its goroutines, no goroutine of getOffsetResponse is alive, the
\* counter is zero and the lock of the broker offset store is free; and
\* every request of the tick was sent and answered or failed.
C9_PollBarrier ==
    pc \in {"computeLag", "Sleep", "getTopicsAndPartitions",
            "getTopicsAndPartitionsLocked", "Leader"} =>
        /\ responders = EmptyMap
        /\ wgBrokerOffsetResponse = 0
        /\ BrokerOffsetStoreMutex = Free
        /\ pc = "computeLag" =>
             {sent[1] : sent \in requestsSent} = DOMAIN brokerOffsetRequests

\* C9 witness: the report runs after a poll of two requests that upserted
C9_Witness ==
    /\ pc = "computeLag"
    /\ Cardinality(requestsSent) = 2
    /\ tickAnswered # {}
    /\ failedLeaders # {}

\* C10: decode failures.  A record that is no offset commit of key version
\* 0 or 1 and value version 0 or 1 never reaches the upsert, so the store
\* holds only keys of commits; a commit is upserted as it was encoded; and
\* when every delivered record has been processed, the key of every commit
\* delivered is in the store, whatever was delivered before it.
C10_DecodeFailures ==
    /\ \A w \in DOMAIN formatters :
         formatters[w].pc \in {"store", "locked"} =>
            \E c \in Meaning[formatters[w].message] :
                /\ Key(c) = <<formatters[w].po.Group, formatters[w].po.Topic,
                              formatters[w].po.Partition>>
                /\ c.Offset = formatters[w].po.Offset
    /\ \A w \in DOMAIN rejected : w \notin DOMAIN formatters
    /\ GTPKeys(ConsumerOffsetStore) \subseteq DOMAIN lastCommit
    /\ formatters = EmptyMap =>
         DOMAIN lastCommit \subseteq GTPKeys(ConsumerOffsetStore)
    /\ delivered > 0 =>
         /\ ingestor = "Wait"
         /\ wgConsumerMessages = 2 * Cardinality(OffsetTopicPartitions)
                                   + Cardinality(DOMAIN formatters)

\* C10 witness: the first record was dropped and the second, a commit, was
\* upserted
C10_Witness ==
    /\ DOMAIN rejected = {1}
    /\ delivered = 2
    /\ formatters = EmptyMap
    /\ GTPKeys(ConsumerOffsetStore) # {}

\* C11: codec round trip.  A record built from a commit with a key of
\* version 0 or 1 (version, group, topic, partition) and a value of version
\* 0 or 1 is decoded to the group, topic, partition and offset it was built
\* from, is never dropped, and that is what the store holds after it; a
\* well-formed record of key version 2 is dropped, its goroutine returning
\* as after any other record.
C11_CodecRoundTrip ==
    /\ \A w \in DOMAIN formatters :
         LET f == formatters[w] IN
         /\ \A c \in CodecCommits, kv \in {0, 1}, vv \in {0, 1}, md \in FieldMetadata :
              (f.message = Encoded(c, kv, vv, md) /\ f.pc # "format") =>
                  f.po = PartitionOffset(c.Group, c.Topic, c.Partition, c.Offset, 1)
         /\ f.message \in GroupMetadataRecords => f.pc = "format"
    /\ \A w \in DOMAIN rejected : rejected[w] \notin CommitRecords
    /\ formatters = EmptyMap =>
         /\ FlatGTP(ConsumerOffsetStore) = lastCommit
         /\ wgConsumerMessages = 2 * Cardinality(OffsetTopicPartitions)
         /\ ConsumerOffsetStoreMutex = Free

\* C11 witness: a commit of partition 258 and offset 300 went through the
\* codec into the store
C11_Witness ==
    /\ formatters = EmptyMap
    /\ GTPOffset(ConsumerOffsetStore, G1, T1, 258) = 300
    /\ lastCommit = Put(EmptyMap, <<G1, T1, 258>>, 300)

\* the bytes readString is handed for the group of a key
GroupBytes(message) == SubSeq(message.Key, 3, Len(message.Key))

\* C12: truncation.  A record whose key or value was cut before the end of
\* its last field never reaches the upsert: the step that decodes it drops
\* it and leaves the store as it was; readString fails on a length prefix
\* that claims more bytes than remain and never takes more bytes than the
\* buffer holds.
C12_TruncationSafety ==
    /\ [][\A w \in DOMAIN formatters :
            (formatters[w].message \in TruncatedRecords
                /\ formatters' # formatters) =>
                    /\ w \notin DOMAIN formatters'
                    /\ w \in DOMAIN rejected'
                    /\ ConsumerOffsetStore' = ConsumerOffsetStore]_vars
    /\ [](\A w \in DOMAIN formatters :
            LET buf == GroupBytes(formatters[w].message)
                read == readString(buf)
            IN  /\ formatters[w].message \in TruncatedRecords =>
                      formatters[w].pc = "format"
                /\ Len(buf) >= 2 =>
                     /\ BigEndian(SubSeq(buf, 1, 2)) > Len(buf) - 2 => read.err
                     /\ ~read.err =>
                          /\ Len(read.str) = BigEndian(SubSeq(buf, 1, 2))
                          /\ 2 + Len(read.str) + Len(read.rest) = Len(buf))
    /\ [](lastCommit = EmptyMap => ConsumerOffsetStore = EmptyMap)

\* C12 witness: a record cut inside the group of its key, its length prefix
\* claiming more than is left, was dropped
C12_Witness ==
    /\ formatters = EmptyMap
    /\ 1 \in DOMAIN rejected
    /\ rejected[1] \in TruncatedRecords
    /\ Len(rejected[1].Key) = 3
    /\ ConsumerOffsetStore = EmptyMap

\* C13: containment.  Once the monitor is constructed no failure of a call
\* of the client ends the process: whichever of the listing of the
\* partitions, the opening of a stream, a leader lookup or a request
\* failed, Start's loop and the goroutines are still there.
C13_FailureContainment == pc # "panic" /\ ingestor # "panic"

\* C14: isolation between leaders.  Each goroutine of a tick sends, to the
\* broker it was started for, the request built for that broker; and when
\* the poll has returned, every block of the request of a leader whose
\* request did not fail, the block carrying no error, was upserted,
\* whatever happened to the requests of the other leaders.
C14_LeaderIsolation ==
    /\ \A sent \in requestsSent :
         /\ sent[2] = sent[1]
         /\ sent[3] = brokerOffsetRequests[sent[1]]
    /\ pc = "computeLag" =>
         \A leader \in DOMAIN brokerOffsetRequests \ failedLeaders :
             brokerOffsetRequests[leader] \ failedBlocks \subseteq tickAnswered

\* the bytes of "kqm", ".group." and "."
PrefixBytes == <<107, 113, 109>>
GroupSegment == <<46, 103, 114, 111, 117, 112, 46>>
Dot == <<46>>

\* <prefix>.group.<group>.<topic>.<partition> for a partition of one digit
StatName(key) ==
    PrefixBytes \o GroupSegment \o key[1] \o Dot \o key[2] \o Dot \o <<48 + key[3]>>

\* C15: the stat name.  Every gauge handed to sendGaugeToStatsd is named
\* <prefix>.group.<group>.<topic>.<partition> for a key of the store, the
\* gauge of a key has that name whatever the offsets and the tick, and the
\* partition is written in decimal, with its sign.
C15_StatName ==
    /\ \A gauge \in gauges \cup tickGauges :
         \E key \in GTPKeys(ConsumerOffsetStore) : gauge[1] = StatName(key)
    /\ \A key \in DOMAIN tickLag :
         tickLag[key] >= 0 => <<StatName(key), tickLag[key]>> \in tickGauges
    /\ Stat(G1, T2, 258) = PrefixBytes \o GroupSegment \o G1 \o Dot \o T2 \o Dot
                              \o <<50, 53, 56>>
    /\ Stat(G2, T1, -1) = PrefixBytes \o GroupSegment \o G2 \o Dot \o T1 \o Dot
                             \o <<45, 49>>

\* C15 witness: gauges of two groups and two topics in one tick, one of
\* lag 0 and one of lag 1
C15_Witness ==
    /\ <<StatName(<<G1, T1, 0>>), 0>> \in tickGauges
    /\ <<StatName(<<G2, T2, 0>>), 0>> \in tickGauges
    /\ <<StatName(<<G2, T1, 0>>), 1>> \in tickGauges

\* the steps of Start's goroutine: line 59, then GetBrokerOffsets (the
\* snapshot, the leaders, the requests, the Wait), computeLag, Sleep, and
\* GetBrokerOffsets again
DriverSteps ==
    {<<"Start", "getTopicsAndPartitions">>,
     <<"getTopicsAndPartitions", "getTopicsAndPartitionsLocked">>,
     <<"getTopicsAndPartitionsLocked", "Leader">>,
     <<"getTopicsAndPartitionsLocked", "Wait">>,
     <<"Leader", "getOffsetResponse">>,
     <<"Leader", "Wait">>,
     <<"getOffsetResponse", "Wait">>,
     <<"Wait", "computeLag">>,
     <<"computeLag", "Sleep">>,
     <<"Sleep", "getTopicsAndPartitions">>}

\* C16: the driver.  The ingestor is started once, by the step that leaves
\* Start, before the first poll; Start's goroutine then goes through the
\* poll, the report and the sleep in that order, a report only from the
\* returned poll and a poll only from Start or the sleep; and the loop is
\* never over.
C16_DriverStateMachine ==
    /\ [][/\ pc' # pc => <<pc, pc'>> \in DriverSteps
          /\ (ingestor' # ingestor /\ ingestor = "notStarted") =>
                (pc = "Start" /\ pc' = "getTopicsAndPartitions"
                    /\ ingestor' = "GetConsumerOffsets")
          /\ (pc = "Start" /\ pc' # pc) => ingestor = "notStarted"
          /\ ingestor # "notStarted" =>
                ingestor' \notin {"notStarted"} \cup
                    (IF ingestor = "GetConsumerOffsets" THEN {}
                     ELSE {"GetConsumerOffsets"})]_vars
    /\ [](pc \in {"Start"} \cup {step[2] : step \in DriverSteps})

\* the (topic, partition) pairs that occur under some group of the store
StorePairs(store) == {<<key[2], key[3]>> : key \in GTPKeys(store)}

\* C17: the snapshot is a set.  What getTopicsAndPartitions returns holds
\* every (topic, partition) that occurs under a group of the store while
\* the lock is held, no other pair, and each pair once.
C17_SnapshotIsSet ==
    [][(pc = "getTopicsAndPartitionsLocked" /\ pc' # pc) =>
          /\ {tpQueue'[i] : i \in 1..Len(tpQueue')} = StorePairs(ConsumerOffsetStore)
          /\ Len(tpQueue') = Cardinality(StorePairs(ConsumerOffsetStore))]_vars

\* the entry of a pair in the broker offset store: its offset, or nothing
Entry(store, tp) == IF tp \in TPKeys(store) THEN {store[tp[1]][tp[2]]} ELSE {}

\* C18: the frame of a poll.  A step of the poll changes the entry of a
\* pair of the broker offset store only if a goroutine of the tick holds a
\* response block for the pair that carries no error, and the entry becomes
\* the offset of that block; every other entry stays as it was, and no
\* step of the poll changes the consumer offset store.
C18_PollFrame ==
    [][/\ \A tp \in TPKeys(BrokerOffsetStore) \cup TPKeys(BrokerOffsetStore') :
            Entry(BrokerOffsetStore', tp) # Entry(BrokerOffsetStore, tp) =>
                \E w \in DOMAIN responders :
                    /\ responders[w].pc = "locked"
                    /\ responders[w].cur = tp
                    /\ tp \in DOMAIN responders[w].todo
                    /\ Entry(BrokerOffsetStore', tp) = {responders[w].todo[tp]}
                    /\ tp \in tickAnswered'
                    /\ \E sent \in requestsSent : tp \in sent[3]
       /\ ConsumerOffsetStore' = ConsumerOffsetStore]_vars

\* C18 witness: a tick upserted one pair; a pair of an earlier tick, whose
\* block carried an error in this tick, is still there
C18_Witness ==
    /\ pc = "computeLag"
    /\ tickAnswered # {}
    /\ \E tp \in TPKeys(BrokerOffsetStore) :
         tp \notin tickAnswered /\ tp \in failedBlocks

\* the goroutines between Lock and Unlock of each mutex
ConsumerLockHolders ==
    {w \in DOMAIN formatters : formatters[w].pc = "locked"}
        \cup (IF pc = "getTopicsAndPartitionsLocked" THEN {Driver} ELSE {})
BrokerLockHolders == {w \in DOMAIN responders : responders[w].pc = "locked"}

\* C19: the locks.  Each mutex has at most one goroutine between its Lock
\* and its Unlock, and that goroutine is its holder; Start's goroutine holds
\* no lock while it resolves leaders, starts and awaits the requests or
\* reports, a goroutine of getOffsetResponse none while it sends its
\* request, a goroutine of formatConsumerOffsetMessage none while it
\* decodes; no goroutine is inside both locks; and the holder of a lock can
\* always take the step that releases it.
C19_LockingDiscipline ==
    /\ Cardinality(ConsumerLockHolders) <= 1
    /\ Cardinality(BrokerLockHolders) <= 1
    /\ ConsumerLockHolders =
         IF ConsumerOffsetStoreMutex = Free THEN {} ELSE {ConsumerOffsetStoreMutex}
    /\ BrokerLockHolders =
         IF BrokerOffsetStoreMutex = Free THEN {} ELSE {BrokerOffsetStoreMutex}
    /\ Driver \notin BrokerLockHolders
    /\ pc \in {"Leader", "getOffsetResponse", "Wait", "computeLag", "Sleep"} =>
         ConsumerOffsetStoreMutex # Driver
    /\ \A w \in DOMAIN formatters :
         ConsumerOffsetStoreMutex = w => ENABLED storeConsumerOffset(w)
    /\ \A w \in DOMAIN responders :
         BrokerOffsetStoreMutex = w => ENABLED storeBrokerOffset(w)
    /\ ConsumerOffsetStoreMutex = Driver => ENABLED getTopicsAndPartitions

\* C19 witness: a goroutine holds the lock of the consumer offset store
\* while another waits for it
C19_Witness ==
    /\ ConsumerOffsetStoreMutex \in DOMAIN formatters
    /\ \E w \in DOMAIN formatters : formatters[w].pc = "store"

\* C20: nothing is removed.  No step takes a key out of the consumer
\* offset store or a pair out of the broker offset store, and the offset of
\* a key changes only by an upsert of that key; and every report computes a
\* lag for every key of the store, but for those upserted during the tick.
C20_EntriesStay ==
    [][/\ GTPKeys(ConsumerOffsetStore) \subseteq GTPKeys(ConsumerOffsetStore')
       /\ TPKeys(BrokerOffsetStore) \subseteq TPKeys(BrokerOffsetStore')
       /\ \A key \in GTPKeys(ConsumerOffsetStore) :
            GTPOffset(ConsumerOffsetStore', key[1], key[2], key[3])
                # GTPOffset(ConsumerOffsetStore, key[1], key[2], key[3])
            => \E w \in DOMAIN formatters :
                  /\ formatters[w].pc = "locked"
                  /\ w \notin DOMAIN formatters'
                  /\ key = <<formatters[w].po.Group, formatters[w].po.Topic,
                             formatters[w].po.Partition>>
       /\ (pc = "computeLag" /\ pc' = "Sleep") =>
            \A key \in GTPKeys(ConsumerOffsetStore) :
                key \in DOMAIN tickLag \/ key \in tickStored]_vars

\* C20 witness: the report of a later tick has computed the lag of two
\* keys, neither committed during the tick, and the broker offset store
\* still holds the pair an earlier tick upserted
C20_Witness ==
    /\ ReportComplete
    /\ Cardinality(GTPKeys(ConsumerOffsetStore)) = 2
    /\ GTPKeys(ConsumerOffsetStore) \subseteq DOMAIN tickLag
    /\ tickStored = {}
    /\ formatters = EmptyMap
    /\ tickAnswered = {}
    /\ BrokerOffsetStore # EmptyMap

(***************************************************************************)
(* The ticks under a scheduler that lets every goroutine run: a cluster of *)
(* two brokers with a cold monitor, where a stream may fail to open and a  *)
(* write of the ingestor may meet the unlocked reads of computeLag.        *)
(***************************************************************************)
\* computeLag, lines 217-219, while a goroutine of storeConsumerOffset is
\* in its write of the same map (lines 242-250): the range and the reads
\* take no lock, and the Go runtime, finding the map being written, ends
\* the process ("concurrent map iteration and map write").  The read may
\* also go through unnoticed: that is computeLag.
computeLagFatal ==
    /\ pc = "computeLag"
    /\ \E w \in DOMAIN formatters : formatters[w].pc = "locked"
    /\ pc' = "fatal"
    /\ ingestor' = "fatal"
    /\ formatters' = EmptyMap
    /\ responders' = EmptyMap
    /\ gauges' = {}
    /\ UNCHANGED <<consumerVars, brokerVars, wgConsumerMessages, delivered,
                   pollVars, wgBrokerOffsetResponse, lagVars, latest, histVars>>

\* the monitor as constructed, in a cluster whose partitions all have a
\* message
InitTick ==
    /\ InitMonitor
    /\ pc = "Start"
    /\ ingestor = "notStarted"
    /\ delivered = 0
    /\ ConsumerOffsetStore = EmptyMap
    /\ wgConsumerMessages = 0
    /\ latest = [tp \in AllTPs |-> 1]
    /\ lastCommit = EmptyMap
    /\ lastUpsert = [consumer |-> EmptyMap, broker |-> EmptyMap]

Brokers == {BrokerA, BrokerB}

NextTick ==
    \/ Start
    \/ Startup
    \/ Ingest(Records)
    \/ Poll(Brokers)
    \/ Report
    \/ computeLagFatal

\* the steps of Start's goroutine (lines 58-65)
Tick ==
    \/ Start
    \/ getTopicsAndPartitionsLock
    \/ getTopicsAndPartitions
    \/ \E leader \in Brokers \cup {NoLeader} : Leader(leader)
    \/ \E leader \in Brokers : goGetOffsetResponse(leader)
    \/ Wait
    \/ \E key \in GTPKeys(ConsumerOffsetStore) : computeLag(key)
    \/ computeLagReturn
    \/ Sleep

\* the steps of a goroutine of getOffsetResponse (lines 148-173); the
\* request returns a response or an error
Worker(w) ==
    \/ \E broker \in Brokers : getOffsetResponseBroker(w, broker)
    \/ \E request \in Brokers : GetAvailableOffsetsError(w, request)
    \/ \E request \in Brokers, ok \in SUBSET AllTPs :
           GetAvailableOffsets(w, request, ok)
    \/ \E tp \in AllTPs : storeBrokerOffsetLock(w, tp)
    \/ storeBrokerOffset(w)
    \/ getOffsetResponseDone(w)

\* the Go scheduler runs every goroutine that can go on: Start's, a
\* goroutine in sync.Mutex.Lock among them once the mutex stays free, those
\* of getOffsetResponse, whose request to a broker returns or fails, and a
\* goroutine of storeConsumerOffset that holds the mutex, up to its Unlock.
\* Nothing is asked of the streams or of the parsing of a record.
Fairness ==
    /\ WF_vars(Tick)
    /\ \A w \in Brokers : WF_vars(Worker(w))
    /\ \A w \in 1..(MaxRecords + 1) : WF_vars(storeConsumerOffset(w))

SpecTick == InitTick /\ [][NextTick]_vars /\ Fairness

\* the same, where every stream opens and the runtime lets the unlocked
\* reads through
NextTickSound ==
    \/ Start
    \/ Ingest(Records)
    \/ Poll(Brokers)
    \/ Report

SpecTickSound == InitTick /\ [][NextTickSound]_vars /\ Fairness

\* GetBrokerOffsets is running (lines 121-180)
PollPhase ==
    pc \in {"getTopicsAndPartitions", "getTopicsAndPartitionsLocked",
            "Leader", "getOffsetResponse", "Wait"}

\* the process has not been ended by the runtime
Alive == pc \notin {"panic", "fatal"}

\* the counter of wgBrokerOffsetResponse: it counts the goroutines of
\* getOffsetResponse that have not returned, so it is never negative, and
\* it is zero when GetBrokerOffsets begins and when it has returned
CounterCounts ==
    /\ Alive => wgBrokerOffsetResponse = Cardinality(DOMAIN responders)
    /\ wgBrokerOffsetResponse >= 0
    /\ pc \in {"Start", "getTopicsAndPartitions", "getTopicsAndPartitionsLocked",
               "Leader", "computeLag", "Sleep"} => wgBrokerOffsetResponse = 0

\* a step changes the counter by one: up with a goroutine started for a
\* request of the batch (lines 176-177), down with a goroutine returning
\* (line 149)
CounterSteps ==
    /\ wgBrokerOffsetResponse' > wgBrokerOffsetResponse =>
         /\ wgBrokerOffsetResponse' = wgBrokerOffsetResponse + 1
         /\ pc = "getOffsetResponse"
         /\ \E leader \in DOMAIN brokerOffsetRequests :
              /\ leader \notin DOMAIN responders
              /\ DOMAIN responders' = DOMAIN responders \cup {leader}
    /\ wgBrokerOffsetResponse' < wgBrokerOffsetResponse =>
         /\ wgBrokerOffsetResponse' = wgBrokerOffsetResponse - 1
         /\ \E w \in DOMAIN responders :
              DOMAIN responders' = DOMAIN responders \ {w}
    /\ (Alive' /\ DOMAIN responders' # DOMAIN responders) =>
         wgBrokerOffsetResponse' # wgBrokerOffsetResponse

\* C21: tick progress.  The counter of outstanding requests goes up by one
\* with each request issued and down by one with each goroutine that
\* returns, with a response or with an error; it is never negative and is
\* zero when a tick begins.  And a tick whose requests all return goes on:
\* the poll is followed by the report, and the report by the sleep.
C21_TickProgress ==
    /\ []CounterCounts
    /\ [][CounterSteps]_vars
    /\ PollPhase ~> pc = "computeLag"
    /\ pc = "computeLag" ~> pc = "Sleep"

=============================================================================
